---------------------------- MODULE Spec2Model ----------------------------
(***************************************************************************)
(* A model of the native ClickHouse client core of go-clickhouse:          *)
(*   - ch/proto.go: the packet-dispatch loops (readSampleBlock,            *)
(*     readDataBlocks, readPacket, readPong), the handshake (DB.hello),    *)
(*     the exception decoder (readException), the block decoder            *)
(*     (readBlock) and the streaming iterator (blockIter);                 *)
(*   - chmigrate/migrator.go: Migrator.Migrate, Rollback, Lock, Unlock.    *)
(*                                                                         *)
(* The wire is modelled one level above bytes: a connection's inbound      *)
(* stream is a sequence of packets, each an opcode and a body.  A body     *)
(* says how many of its fields the transport delivers ("avail"), so that   *)
(* a transport failure in the middle of a packet is a short body, and the  *)
(* end of the sequence is a failed read of the next opcode.                *)
(***************************************************************************)
EXTENDS Integers, Sequences, FiniteSets, TLC

VARIABLES
    \* --- packet-dispatch loops and handshake (one call per behaviour)
    lstream,     \* the inbound packets of the connection the call reads
    lout,        \* the finished call: its name, its results, what is left unread
    \* --- streaming iterator
    conn,        \* inbound packets not yet read from the iterator's connection
    it,          \* the blockIter: cn (held or nil) and stickyErr
    released,    \* the calls of db.releaseConn made so far: the error of each
    reads,       \* calls of it.read (each reads the connection) so far
    wrote,       \* client opcodes written to the iterator's connection so far
    last,        \* the last call on the iterator and what it returned
    hist,        \* history of the iterator's calls (ghost)
    \* --- migrator
    lockCol,     \* whether the locks table carries the lock column
    mig,         \* per Migrator: its options, its position, what it has done
    \* --- query writer
    hostname,    \* the package variable hostname
    lookups,     \* calls of os.Hostname made so far (ghost)
    QuerySettings, \* db.cfg.QuerySettings: setting name -> typed value
    queries      \* the writeQuery calls made so far: what each wrote (ghost)

vars == <<lstream, lout, conn, it, released, reads, wrote, last, hist, lockCol, mig,
          hostname, lookups, QuerySettings, queries>>
loopVars == <<lstream, lout>>
iterVars == <<conn, it, released, reads, wrote, last, hist>>
migVars == <<lockCol, mig>>
queryVars == <<hostname, lookups, QuerySettings, queries>>

-----------------------------------------------------------------------------
(* Bounds of the model *)

MaxLen == 3           \* packets in an inbound stream
MaxRows == 2          \* rows of a Data packet
MaxCalls == 4         \* calls made on one blockIter
MaxMigrations == 2    \* migrations of one group
MaxLockCalls == 3     \* calls of Lock / Unlock made on their own

-----------------------------------------------------------------------------
(* Program constants, proto.go lines 15-21 *)

clientName == "go-clickhouse"
chVersionMajor == 19
chVersionMinor == 17
chVersionPatch == 5
chRevision == 54428

(* The packet vocabulary (package chproto) *)

ClientHello == 0
ServerHello == 0
ServerData == 1
ServerException == 2
ServerProgress == 3
ServerPong == 4
ServerEndOfStream == 5
ServerProfileInfo == 6
ServerTableColumns == 11

-----------------------------------------------------------------------------
(* Errors.  Go's nil error is NoErr; every other value is non-nil. *)

NoErr == [kind |-> "nil"]
IoErr == [kind |-> "io"]
UnexpectedPacket(where, packet) ==
    [kind |-> "unexpected", where |-> where, packet |-> packet]
EmptyNameErr == [kind |-> "decode", text |-> "ch: column has empty name"]
EmptyTypeErr(colName) ==
    [kind |-> "decode", text |-> "ch: column has empty type", column |-> colName]

-----------------------------------------------------------------------------
(* Text is a sequence of tokens, so that prefix and space trimming are     *)
(* computed and not assumed.                                               *)

RECURSIVE TrimLeft(_)
TrimLeft(s) == IF s # <<>> /\ Head(s) = " " THEN TrimLeft(Tail(s)) ELSE s

RECURSIVE TrimRight(_)
TrimRight(s) ==
    IF s # <<>> /\ s[Len(s)] = " " THEN TrimRight(SubSeq(s, 1, Len(s) - 1)) ELSE s

TrimSpace(s) == TrimRight(TrimLeft(s))

HasPrefix(s, p) == Len(s) >= Len(p) /\ SubSeq(s, 1, Len(p)) = p

TrimPrefix(s, p) == IF HasPrefix(s, p) THEN SubSeq(s, Len(p) + 1, Len(s)) ELSE s

Contains(s, sub) ==
    \E i \in 0..(Len(s) - Len(sub)) : SubSeq(s, i + 1, i + Len(sub)) = sub

-----------------------------------------------------------------------------
(* readException.  The body of a ServerException packet is the sequence of *)
(* its levels as the server sent them, outermost first; a level delivers   *)
(* "avail" of its five fields (code, name, message, stack trace,           *)
(* has-nested).                                                            *)

(* Variant: the nested cause is never decoded *)
readException_IgnoresNested(levels) ==
    IF levels = <<>> THEN IoErr
    ELSE LET l == Head(levels) IN
         IF l.avail < 5 THEN IoErr
         ELSE [kind |-> "exception",
               Code |-> l.code,
               Name |-> l.name,
               Message |-> TrimSpace(TrimPrefix(l.message, <<l.name, ":">>)),
               StackTrace |-> l.stack,
               nested |-> NoErr]

RECURSIVE readException(_)
readException(levels) ==
    IF levels = <<>> THEN IoErr
    ELSE LET l == Head(levels) IN
         IF l.avail < 5 THEN IoErr
         ELSE [kind |-> "exception",
               Code |-> l.code,
               Name |-> l.name,
               Message |-> TrimSpace(TrimPrefix(l.message, <<l.name, ":">>)),
               StackTrace |-> l.stack,
               nested |-> IF l.hasNested THEN readException(Tail(levels))
                          ELSE NoErr]

(* readProgress, readProfileInfo, readServerTableColumns: read and discard *)
(* 5, 6 and 2 fields.                                                      *)

readProgress(body) == IF body.avail < 5 THEN IoErr ELSE NoErr

readProfileInfo(body) == IF body.avail < 6 THEN IoErr ELSE NoErr

readServerTableColumns(body) == IF body.avail < 2 THEN IoErr ELSE NoErr

(* readBlock.  The header is 8 fields: the table name, the 5 fields of     *)
(* readBlockInfo, numColumn, numRow.  Then, per column, name, type and the *)
(* column's data (col.ReadFrom).                                           *)

readBlockInfo(body) == IF body.avail < 6 THEN IoErr ELSE NoErr

RECURSIVE readColumns(_)
readColumns(cols) ==
    IF cols = <<>> THEN NoErr
    ELSE LET c == Head(cols) IN
         IF c.name = "" THEN EmptyNameErr
         ELSE IF c.type = "" THEN EmptyTypeErr(c.name)
         ELSE IF ~c.dataOk THEN IoErr
         ELSE readColumns(Tail(cols))

emptyBlock == [NumColumn |-> 0, NumRow |-> 0]

readBlock(body, block) ==
    IF body.avail < 1 THEN [err |-> IoErr, block |-> block]
    ELSE IF readBlockInfo(body) # NoErr THEN [err |-> IoErr, block |-> block]
    ELSE IF body.avail < 8 THEN [err |-> IoErr, block |-> block]
    ELSE [err |-> readColumns(body.cols),
          block |-> [NumColumn |-> Len(body.cols), NumRow |-> body.numRow]]

-----------------------------------------------------------------------------
(* The inbound packets the model draws from. *)

Pkt(op, body) == [op |-> op, body |-> body]

(* An opcode outside the vocabulary *)
UnknownPkt == Pkt(255, [avail |-> 0])

GoodCol == [name |-> "id", type |-> "Int8", dataOk |-> TRUE]

DataPkt(n) == Pkt(ServerData, [avail |-> 8, numRow |-> n, cols |-> <<GoodCol>>])

EmptyDataPkt == Pkt(ServerData, [avail |-> 8, numRow |-> 0, cols |-> <<>>])

BadDataPkts ==
    { Pkt(ServerData, [avail |-> 8, numRow |-> 1,
                       cols |-> <<[name |-> "id", type |-> "", dataOk |-> TRUE]>>]),
      Pkt(ServerData, [avail |-> 8, numRow |-> 1,
                       cols |-> <<[name |-> "", type |-> "Int8", dataOk |-> TRUE]>>]),
      Pkt(ServerData, [avail |-> 7, numRow |-> 1, cols |-> <<GoodCol>>]) }

Level(code, msg, nestedFlag, avail) ==
    [code |-> code, name |-> "DB::Exception", message |-> msg,
     stack |-> "stack", hasNested |-> nestedFlag, avail |-> avail]

ExcPkt(levels) == Pkt(ServerException, [avail |-> Len(levels), levels |-> levels])

OuterMsg == <<"DB::Exception", ":", " ", "Table", " ", "missing", " ">>
InnerMsg == <<"No", " ", "such", " ", "table">>

ExceptionPkts ==
    { ExcPkt(<<Level(60, OuterMsg, FALSE, 5)>>),
      ExcPkt(<<Level(60, OuterMsg, TRUE, 5), Level(81, InnerMsg, FALSE, 5)>>),
      ExcPkt(<<Level(60, OuterMsg, TRUE, 5), Level(81, InnerMsg, FALSE, 3)>>),
      ExcPkt(<<Level(60, OuterMsg, FALSE, 2)>>) }

SkipPkts ==
    { Pkt(ServerProgress, [avail |-> 5]),
      Pkt(ServerProfileInfo, [avail |-> 6]),
      Pkt(ServerTableColumns, [avail |-> 2]) }

ShortPkts ==
    { Pkt(ServerProgress, [avail |-> 4]) }

HelloPkts ==
    { Pkt(ServerHello, [ok |-> TRUE, info |-> [Name |-> "ClickHouse", Revision |-> chRevision]]),
      Pkt(ServerHello, [ok |-> FALSE, info |-> [Name |-> "ClickHouse", Revision |-> chRevision]]) }

GoodDataPkts == { DataPkt(n) : n \in 1..MaxRows } \cup {EmptyDataPkt}

Packets ==
    GoodDataPkts \cup BadDataPkts \cup ExceptionPkts \cup SkipPkts \cup ShortPkts
    \cup HelloPkts
    \cup { Pkt(ServerEndOfStream, [avail |-> 0]),
           Pkt(ServerPong, [avail |-> 0]),
           UnknownPkt }

Streams == UNION { [1..n -> Packets] : n \in 0..MaxLen }

(* The iterator treats every opcode outside its vocabulary alike and never *)
(* looks at a row count: its streams draw from fewer packets.              *)
IterPackets ==
    { DataPkt(1), EmptyDataPkt,
      Pkt(ServerData, [avail |-> 8, numRow |-> 1,
                       cols |-> <<[name |-> "id", type |-> "", dataOk |-> TRUE]>>]),
      ExcPkt(<<Level(60, OuterMsg, FALSE, 5)>>),
      ExcPkt(<<Level(60, OuterMsg, TRUE, 5), Level(81, InnerMsg, FALSE, 3)>>),
      Pkt(ServerEndOfStream, [avail |-> 0]),
      UnknownPkt }
    \cup SkipPkts \cup ShortPkts

IterStreams == UNION { [1..n -> IterPackets] : n \in 0..MaxLen }

-----------------------------------------------------------------------------
(* The packet-dispatch loops.  Each takes the unread packets and returns   *)
(* its Go results together with the packets left unread ("rest").          *)

NilResult == [nil |-> TRUE, affected |-> 0]
NilBlock == [nil |-> TRUE, NumColumn |-> 0, NumRow |-> 0]

NewBlock(b) == [nil |-> FALSE, NumColumn |-> b.NumColumn, NumRow |-> b.NumRow]

RECURSIVE readSampleBlock(_)
readSampleBlock(s) ==
    IF s = <<>> THEN [block |-> NilBlock, err |-> IoErr, rest |-> s]
    ELSE LET p == Head(s)
             r == Tail(s)
         IN  CASE p.op = ServerData ->
                    LET b == readBlock(p.body, emptyBlock)
                    IN  IF b.err # NoErr
                        THEN [block |-> NilBlock, err |-> b.err, rest |-> r]
                        ELSE [block |-> NewBlock(b.block), err |-> NoErr, rest |-> r]
               [] p.op = ServerTableColumns ->
                    IF readServerTableColumns(p.body) # NoErr
                    THEN [block |-> NilBlock, err |-> IoErr, rest |-> r]
                    ELSE readSampleBlock(r)
               [] p.op = ServerException ->
                    [block |-> NilBlock, err |-> readException(p.body.levels), rest |-> r]
               [] OTHER ->
                    [block |-> NilBlock,
                     err |-> UnexpectedPacket("readSampleBlock", p.op), rest |-> r]

(* Variant: the count is assigned, not added *)
AddAffected_Overwrites(res, block) ==
    [nil |-> FALSE, affected |-> block.NumRow]

AddAffected(res, block) ==
    [nil |-> FALSE, affected |-> res.affected + block.NumRow]

RECURSIVE readDataBlocksLoop(_, _, _)
readDataBlocksLoop(s, res, block) ==
    IF s = <<>> THEN [res |-> NilResult, err |-> IoErr, rest |-> s]
    ELSE LET p == Head(s)
             r == Tail(s)
         IN  CASE p.op = ServerData ->
                    LET b == readBlock(p.body, block)
                    IN  IF b.err # NoErr
                        THEN [res |-> NilResult, err |-> b.err, rest |-> r]
                        ELSE readDataBlocksLoop(r, AddAffected(res, b.block), b.block)
               [] p.op = ServerException ->
                    [res |-> NilResult, err |-> readException(p.body.levels), rest |-> r]
               [] p.op = ServerProgress ->
                    IF readProgress(p.body) # NoErr
                    THEN [res |-> NilResult, err |-> IoErr, rest |-> r]
                    ELSE readDataBlocksLoop(r, res, block)
               [] p.op = ServerProfileInfo ->
                    IF readProfileInfo(p.body) # NoErr
                    THEN [res |-> NilResult, err |-> IoErr, rest |-> r]
                    ELSE readDataBlocksLoop(r, res, block)
               [] p.op = ServerTableColumns ->
                    IF readServerTableColumns(p.body) # NoErr
                    THEN [res |-> NilResult, err |-> IoErr, rest |-> r]
                    ELSE readDataBlocksLoop(r, res, block)
               [] p.op = ServerEndOfStream ->
                    [res |-> res, err |-> NoErr, rest |-> r]
               [] OTHER ->
                    [res |-> NilResult,
                     err |-> UnexpectedPacket("readDataBlocks", p.op), rest |-> r]

readDataBlocks(s) == readDataBlocksLoop(s, NilResult, emptyBlock)

EmptyResult == [nil |-> FALSE, affected |-> 0]

(* Variant: the result allocated before the switch is returned with the   *)
(* error                                                                   *)
readPacket_ReturnsResWithError(s) ==
    IF s = <<>> THEN [res |-> NilResult, err |-> IoErr, rest |-> s]
    ELSE LET p == Head(s)
             r == Tail(s)
         IN  CASE p.op = ServerException ->
                    [res |-> EmptyResult, err |-> readException(p.body.levels), rest |-> r]
               [] p.op \in {ServerProgress, ServerProfileInfo, ServerTableColumns,
                            ServerEndOfStream} ->
                    [res |-> EmptyResult,
                     err |-> IF p.body.avail < (CASE p.op = ServerProgress -> 5
                                                  [] p.op = ServerProfileInfo -> 6
                                                  [] p.op = ServerTableColumns -> 2
                                                  [] OTHER -> 0)
                             THEN IoErr ELSE NoErr,
                     rest |-> r]
               [] OTHER ->
                    [res |-> EmptyResult,
                     err |-> UnexpectedPacket("readPacket", p.op), rest |-> r]

readPacket(s) ==
    IF s = <<>> THEN [res |-> NilResult, err |-> IoErr, rest |-> s]
    ELSE LET p == Head(s)
             r == Tail(s)
         IN  CASE p.op = ServerException ->
                    [res |-> NilResult, err |-> readException(p.body.levels), rest |-> r]
               [] p.op = ServerProgress ->
                    IF readProgress(p.body) # NoErr
                    THEN [res |-> NilResult, err |-> IoErr, rest |-> r]
                    ELSE [res |-> EmptyResult, err |-> NoErr, rest |-> r]
               [] p.op = ServerProfileInfo ->
                    IF readProfileInfo(p.body) # NoErr
                    THEN [res |-> NilResult, err |-> IoErr, rest |-> r]
                    ELSE [res |-> EmptyResult, err |-> NoErr, rest |-> r]
               [] p.op = ServerTableColumns ->
                    IF readServerTableColumns(p.body) # NoErr
                    THEN [res |-> NilResult, err |-> IoErr, rest |-> r]
                    ELSE [res |-> EmptyResult, err |-> NoErr, rest |-> r]
               [] p.op = ServerEndOfStream ->
                    [res |-> EmptyResult, err |-> NoErr, rest |-> r]
               [] OTHER ->
                    [res |-> NilResult,
                     err |-> UnexpectedPacket("readPacket", p.op), rest |-> r]

readPong(s) ==
    IF s = <<>> THEN [err |-> IoErr, rest |-> s]
    ELSE LET p == Head(s)
             r == Tail(s)
         IN  CASE p.op = ServerPong -> [err |-> NoErr, rest |-> r]
               [] p.op = ServerException -> [err |-> readException(p.body.levels), rest |-> r]
               [] p.op = ServerEndOfStream -> [err |-> NoErr, rest |-> r]
               [] OTHER -> [err |-> UnexpectedPacket("readPong", p.op), rest |-> r]

(* blockIter.read: ok, err, the caller's block as the call leaves it. *)

RECURSIVE blockIter_read(_, _)
blockIter_read(s, block) ==
    IF s = <<>> THEN [ok |-> FALSE, err |-> IoErr, rest |-> s, block |-> block]
    ELSE LET p == Head(s)
             r == Tail(s)
         IN  CASE p.op = ServerData ->
                    LET b == readBlock(p.body, block)
                    IN  IF b.err # NoErr
                        THEN [ok |-> FALSE, err |-> b.err, rest |-> r, block |-> b.block]
                        ELSE [ok |-> TRUE, err |-> NoErr, rest |-> r, block |-> b.block]
               [] p.op = ServerException ->
                    [ok |-> FALSE, err |-> readException(p.body.levels), rest |-> r,
                     block |-> block]
               [] p.op = ServerProgress ->
                    IF readProgress(p.body) # NoErr
                    THEN [ok |-> FALSE, err |-> IoErr, rest |-> r, block |-> block]
                    ELSE blockIter_read(r, block)
               [] p.op = ServerProfileInfo ->
                    IF readProfileInfo(p.body) # NoErr
                    THEN [ok |-> FALSE, err |-> IoErr, rest |-> r, block |-> block]
                    ELSE blockIter_read(r, block)
               [] p.op = ServerTableColumns ->
                    IF readServerTableColumns(p.body) # NoErr
                    THEN [ok |-> FALSE, err |-> IoErr, rest |-> r, block |-> block]
                    ELSE blockIter_read(r, block)
               [] p.op = ServerEndOfStream ->
                    [ok |-> FALSE, err |-> NoErr, rest |-> r, block |-> block]
               [] OTHER ->
                    [ok |-> FALSE, err |-> UnexpectedPacket("blockIter.Next", p.op),
                     rest |-> r, block |-> block]

-----------------------------------------------------------------------------
(* DB.hello.  writeOk: whether cn.WithWriter returns nil.  The client      *)
(* hello is written first; only then is one packet read.                   *)

UnsetServerInfo == [Name |-> "", Revision |-> 0, set |-> FALSE]

writeClientInfo == <<clientName, chVersionMajor, chVersionMinor, chRevision>>

helloRequest(cfg) ==
    <<ClientHello>> \o writeClientInfo \o <<cfg.Database, cfg.User, cfg.Password>>

ServerInfoReadFrom(body, info) ==
    IF body.ok
    THEN [err |-> NoErr,
          info |-> [Name |-> body.info.Name, Revision |-> body.info.Revision,
                    set |-> TRUE]]
    ELSE [err |-> IoErr, info |-> info]

helloResponse(s, info) ==
    IF s = <<>> THEN [err |-> IoErr, rest |-> s, info |-> info]
    ELSE LET p == Head(s)
             r == Tail(s)
         IN  CASE p.op = ServerHello ->
                    LET x == ServerInfoReadFrom(p.body, info)
                    IN  [err |-> x.err, rest |-> r, info |-> x.info]
               [] p.op = ServerException ->
                    [err |-> readException(p.body.levels), rest |-> r, info |-> info]
               [] OTHER ->
                    [err |-> UnexpectedPacket("hello", p.op), rest |-> r, info |-> info]

(* Variant: the response is read although the write failed *)
hello_ReadsAfterWriteFailure(cfg, writeOk, s, info) ==
    LET x == helloResponse(s, info)
    IN  [err |-> IF writeOk THEN x.err ELSE IoErr, rest |-> x.rest, info |-> x.info,
         wrote |-> IF writeOk THEN helloRequest(cfg) ELSE <<>>]

hello(cfg, writeOk, s, info) ==
    IF ~writeOk
    THEN [err |-> IoErr, rest |-> s, info |-> info, wrote |-> <<>>]
    ELSE LET x == helloResponse(s, info)
         IN  [err |-> x.err, rest |-> x.rest, info |-> x.info,
              wrote |-> helloRequest(cfg)]

-----------------------------------------------------------------------------
(* blockIter: Close, close, Err, Next.  it.cn is TRUE while the iterator   *)
(* holds its connection and FALSE once it is nil.  "rel" lists the calls   *)
(* of db.releaseConn the operation makes, each by the error it passes, and *)
(* "wr" the client opcodes it writes to the connection.                    *)

ClientCancel == 3

writeCancel == <<ClientCancel>>

(* The pool's contract of Release(connection, error): a non-nil error      *)
(* discards the connection, nil puts it back for reuse.                    *)
PoolDiscards(err) == err # NoErr

newBlockIter == [cn |-> TRUE, stickyErr |-> NoErr]

(* Variant: the connection is released but it.cn is not reset *)
blockIter_close_KeepsCn(i) ==
    [it |-> i, rel |-> <<i.stickyErr>>, wr |-> <<>>]

blockIter_close(i) ==
    [it |-> [i EXCEPT !.cn = FALSE], rel |-> <<i.stickyErr>>, wr |-> <<>>]

(* Variant: Close records an error of its own before releasing *)
blockIter_Close_RecordsClosed(i) ==
    IF i.cn THEN blockIter_close([i EXCEPT !.stickyErr = [kind |-> "closed"]])
    ELSE [it |-> i, rel |-> <<>>, wr |-> <<>>]

blockIter_Close_Unguarded(i) == blockIter_close(i)

blockIter_Close(i) ==
    IF i.cn THEN blockIter_close(i) ELSE [it |-> i, rel |-> <<>>, wr |-> <<>>]

blockIter_Err(i) == i.stickyErr

(* Variant: on a failed read the connection is released before the error  *)
(* is recorded                                                             *)
blockIter_Next_ReleasesFirst(i, s, block) ==
    IF ~i.cn
    THEN [it |-> i, rel |-> <<>>, wr |-> <<>>, ret |-> FALSE, rest |-> s, block |-> block,
          read |-> FALSE, err |-> NoErr, ok |-> FALSE]
    ELSE LET r == blockIter_read(s, block)
         IN  IF r.err # NoErr
             THEN LET c == blockIter_close(i)
                  IN  [it |-> [c.it EXCEPT !.stickyErr = r.err], rel |-> c.rel, wr |-> c.wr,
                       ret |-> FALSE, rest |-> r.rest,
                       block |-> r.block, read |-> TRUE, err |-> r.err, ok |-> r.ok]
             ELSE IF ~r.ok
             THEN LET c == blockIter_close(i)
                  IN  [it |-> c.it, rel |-> c.rel, wr |-> c.wr, ret |-> FALSE, rest |-> r.rest,
                       block |-> r.block, read |-> TRUE, err |-> r.err, ok |-> r.ok]
             ELSE [it |-> i, rel |-> <<>>, wr |-> <<>>, ret |-> TRUE, rest |-> r.rest,
                   block |-> r.block, read |-> TRUE, err |-> r.err, ok |-> r.ok]

blockIter_Next(i, s, block) ==
    IF ~i.cn
    THEN [it |-> i, rel |-> <<>>, wr |-> <<>>, ret |-> FALSE, rest |-> s, block |-> block,
          read |-> FALSE, err |-> NoErr, ok |-> FALSE]
    ELSE LET r == blockIter_read(s, block)
         IN  IF r.err # NoErr
             THEN LET c == blockIter_close([i EXCEPT !.stickyErr = r.err])
                  IN  [it |-> c.it, rel |-> c.rel, wr |-> c.wr, ret |-> FALSE, rest |-> r.rest,
                       block |-> r.block, read |-> TRUE, err |-> r.err, ok |-> r.ok]
             ELSE IF ~r.ok
             THEN LET c == blockIter_close(i)
                  IN  [it |-> c.it, rel |-> c.rel, wr |-> c.wr, ret |-> FALSE, rest |-> r.rest,
                       block |-> r.block, read |-> TRUE, err |-> r.err, ok |-> r.ok]
             ELSE [it |-> i, rel |-> <<>>, wr |-> <<>>, ret |-> TRUE, rest |-> r.rest,
                   block |-> r.block, read |-> TRUE, err |-> r.err, ok |-> r.ok]

-----------------------------------------------------------------------------
(* Idle values of each component, for the specifications that do not run it *)

LoopsIdle == lstream = <<>> /\ lout = [fn |-> "none"]

QueryIdle ==
    /\ hostname = ""
    /\ lookups = 0
    /\ QuerySettings = <<>>
    /\ queries = <<>>

IterIdle ==
    /\ conn = <<>>
    /\ it = newBlockIter
    /\ released = <<>>
    /\ reads = 0
    /\ wrote = <<>>
    /\ last = [op |-> "none"]
    /\ hist = [calls |-> 0]

-----------------------------------------------------------------------------
(* Specification SpecLoops: one call of one packet-dispatch loop, or of    *)
(* hello, on a connection whose inbound stream is any of Streams.          *)

helloCfg == [Database |-> "default", User |-> "default", Password |-> "secret"]

CallReadSampleBlock ==
    /\ lout.fn = "none"
    /\ lout' = [fn |-> "readSampleBlock", in |-> lstream, r |-> readSampleBlock(lstream)]
    /\ lstream' = lout'.r.rest
    /\ UNCHANGED <<iterVars, migVars, queryVars>>

CallReadDataBlocks ==
    /\ lout.fn = "none"
    /\ lout' = [fn |-> "readDataBlocks", in |-> lstream, r |-> readDataBlocks(lstream)]
    /\ lstream' = lout'.r.rest
    /\ UNCHANGED <<iterVars, migVars, queryVars>>

CallReadPacket ==
    /\ lout.fn = "none"
    /\ lout' = [fn |-> "readPacket", in |-> lstream, r |-> readPacket(lstream)]
    /\ lstream' = lout'.r.rest
    /\ UNCHANGED <<iterVars, migVars, queryVars>>

CallReadPong ==
    /\ lout.fn = "none"
    /\ lout' = [fn |-> "readPong", in |-> lstream, r |-> readPong(lstream)]
    /\ lstream' = lout'.r.rest
    /\ UNCHANGED <<iterVars, migVars, queryVars>>

CallBlockIterRead ==
    /\ lout.fn = "none"
    /\ lout' = [fn |-> "blockIter.read", in |-> lstream,
                r |-> blockIter_read(lstream, emptyBlock)]
    /\ lstream' = lout'.r.rest
    /\ UNCHANGED <<iterVars, migVars, queryVars>>

CallHello ==
    /\ lout.fn = "none"
    /\ \E writeOk \in BOOLEAN :
          lout' = [fn |-> "hello", in |-> lstream, writeOk |-> writeOk,
                   r |-> hello(helloCfg, writeOk, lstream, UnsetServerInfo)]
    /\ lstream' = lout'.r.rest
    /\ UNCHANGED <<iterVars, migVars, queryVars>>

-----------------------------------------------------------------------------
(* Migrator.  The database is the locks table (lockCol) and the outcome of *)
(* each statement.  An error of the database carries its text as tokens.   *)

DbErr(text) == [kind |-> "db", text |-> text]

ColumnExistsErr ==
    DbErr(<<"Cannot", "add", "column", "lock", ":", "column", "already", "exists">>)
CannotFindErr ==
    DbErr(<<"Cannot", "find", "column", "lock", "to", "drop">>)
WrongCaseErr ==
    DbErr(<<"cannot", "find", "column", "lock">>)
ConnRefusedErr ==
    DbErr(<<"connection", "refused">>)

UpErr == [kind |-> "migration", text |-> <<"up", "or", "down", "failed">>]
InsertErr == DbErr(<<"insert", "failed">>)
SelectErr == DbErr(<<"select", "failed">>)
ValidateErr == [kind |-> "validate", text |-> <<"there", "are", "no", "any", "migrations">>]

(* ALTER TABLE ... ADD COLUMN lock: fails when the column exists, and may  *)
(* fail for any other reason; the column is added only on success.         *)
ExecAddColumn(col) ==
    IF col THEN {[err |-> ColumnExistsErr, col |-> TRUE],
                 [err |-> ConnRefusedErr, col |-> TRUE]}
    ELSE {[err |-> NoErr, col |-> TRUE], [err |-> ConnRefusedErr, col |-> FALSE]}

(* ALTER TABLE ... DROP COLUMN lock *)
ExecDropColumn(col) ==
    IF col THEN {[err |-> NoErr, col |-> FALSE],
                 [err |-> ConnRefusedErr, col |-> TRUE],
                 [err |-> WrongCaseErr, col |-> TRUE]}
    ELSE {[err |-> CannotFindErr, col |-> FALSE],
          [err |-> ConnRefusedErr, col |-> FALSE]}

AlreadyLockedErr(cause) == [kind |-> "already locked", cause |-> cause]
AlreadyUnlockedErr(cause) == [kind |-> "already unlocked", cause |-> cause]

(* Variant: Lock reports success whatever the ADD COLUMN returned *)
Lock_IgnoresError(execErr) == NoErr

(* Migrator.Lock and Migrator.Unlock, given what ExecContext returned *)
Lock(execErr) ==
    IF execErr # NoErr THEN AlreadyLockedErr(execErr) ELSE NoErr

(* Variant: every failure of the DROP COLUMN is reported *)
Unlock_ReportsEveryFailure(execErr) ==
    IF execErr # NoErr THEN AlreadyUnlockedErr(execErr) ELSE NoErr

Unlock(execErr) ==
    IF execErr # NoErr /\ ~Contains(execErr.text, <<"Cannot", "find", "column">>)
    THEN AlreadyUnlockedErr(execErr)
    ELSE NoErr

(* Migrator.validate *)
validate(nms) == IF nms = 0 THEN ValidateErr ELSE NoErr

(* The guard of the migration function: Migrate line 162, Rollback 206 *)
MigrateRuns(nop, hasFn) == ~nop \/ hasFn

RollbackRuns(nop, hasFn) == ~nop /\ hasFn

Runs(op, nop, hasFn) ==
    IF op = "Migrate" THEN MigrateRuns(nop, hasFn) ELSE RollbackRuns(nop, hasFn)

(* Lines 165-167 and 209-211: whether the failed step returns at once *)
(* Variant: the option is not consulted *)
ReturnsBeforeMark_IgnoresOption(err, applyOnSuccess) == err # NoErr

ReturnsBeforeMark(err, applyOnSuccess) == err # NoErr /\ applyOnSuccess

(* Lines 170-177 and 214-221, after MarkApplied / MarkUnapplied returned   *)
(* applyErr for a step whose function returned err: whether the run        *)
(* returns, and with which error.                                          *)
AfterMark(err, applyErr) ==
    IF err # NoErr THEN [returns |-> TRUE, ret |-> applyErr]
    ELSE IF err # NoErr THEN [returns |-> TRUE, ret |-> err]
    ELSE [returns |-> FALSE, ret |-> NoErr]

Migrators == {1}

IdleMigrator ==
    [pc |-> "idle", op |-> "none", nop |-> FALSE, applyOnSuccess |-> FALSE,
     nms |-> 0, group |-> <<>>, k |-> 0, err |-> NoErr, ret |-> NoErr,
     retGroup |-> FALSE, panicked |-> FALSE,
     ran |-> {}, failed |-> {}, marked |-> {}, markFailed |-> {},
     lockExec |-> <<>>, lockRet |-> <<>>, unlockExec |-> <<>>, unlockRet |-> <<>>]

MigIdle == lockCol = FALSE /\ mig = [p \in Migrators |-> IdleMigrator]

Groups(n) == UNION { [1..j -> BOOLEAN] : j \in 0..n }

(* The migration of step k: Migrate walks the group forwards, Rollback     *)
(* backwards.                                                              *)
StepIndex(m) == IF m.op = "Migrate" THEN m.k ELSE Len(m.group) - m.k + 1

(* Migrate / Rollback up to validate: lines 132-137, 183-188 *)
MigStartWith(p, Nops, Options, Sizes) ==
    /\ mig[p].pc = "idle"
    /\ \E op \in {"Migrate", "Rollback"}, nop \in Nops, aos \in Options,
          nms \in Sizes :
          LET m == [mig[p] EXCEPT !.op = op, !.nop = nop,
                                        !.applyOnSuccess = aos, !.nms = nms]
          IN  mig' = [mig EXCEPT ![p] =
                        IF validate(nms) # NoErr
                        THEN [m EXCEPT !.pc = "done", !.ret = validate(nms)]
                        ELSE [m EXCEPT !.pc = "lock"]]
    /\ UNCHANGED <<lockCol, loopVars, iterVars, queryVars>>

MigStart(p) == MigStartWith(p, BOOLEAN, BOOLEAN, 0..MaxMigrations)

(* m.Lock(ctx): lines 139-142, 190-193 *)
MigLock(p) ==
    /\ mig[p].pc = "lock"
    /\ \E x \in ExecAddColumn(lockCol) :
          /\ lockCol' = x.col
          /\ mig' = [mig EXCEPT ![p] =
                LET m == [@ EXCEPT !.lockExec = Append(@, x.err),
                                   !.lockRet = Append(@, Lock(x.err))]
                IN  IF Lock(x.err) # NoErr
                    THEN [m EXCEPT !.pc = "done", !.ret = Lock(x.err)]
                    ELSE [m EXCEPT !.pc = "status"]]
    /\ UNCHANGED <<loopVars, iterVars, queryVars>>

(* migrationsWithStatus, Unapplied / LastGroup: lines 144-155, 195-200 *)
MigStatus(p) ==
    /\ mig[p].pc = "status"
    /\ \/ mig' = [mig EXCEPT ![p] = [@ EXCEPT !.pc = "unlock", !.ret = SelectErr]]
       \/ \E g \in Groups(mig[p].nms) :
             mig' = [mig EXCEPT ![p] =
                IF g = <<>>
                THEN [@ EXCEPT !.pc = "unlock", !.ret = NoErr, !.retGroup = TRUE]
                ELSE [@ EXCEPT !.pc = "run", !.group = g, !.k = 1]]
    /\ UNCHANGED <<lockCol, loopVars, iterVars, queryVars>>

(* One step's Up / Down: lines 161-168, 205-212 *)
MigRun(p) ==
    /\ mig[p].pc = "run"
    /\ LET m == mig[p]
           hasFn == m.group[StepIndex(m)]
       IN  IF ~Runs(m.op, m.nop, hasFn)
           THEN mig' = [mig EXCEPT ![p] = [m EXCEPT !.pc = "mark", !.err = NoErr]]
           ELSE IF ~hasFn
           THEN mig' = [mig EXCEPT ![p] = [m EXCEPT !.pc = "unlock", !.panicked = TRUE]]
           ELSE \E e \in {NoErr, UpErr} :
                  mig' = [mig EXCEPT ![p] =
                     LET r == [m EXCEPT !.ran = @ \cup {m.k},
                                        !.failed = IF e # NoErr THEN @ \cup {m.k} ELSE @,
                                        !.err = e]
                     IN  IF ReturnsBeforeMark(e, m.applyOnSuccess)
                         THEN [r EXCEPT !.pc = "unlock", !.ret = e, !.retGroup = TRUE]
                         ELSE [r EXCEPT !.pc = "mark"]]
    /\ UNCHANGED <<lockCol, loopVars, iterVars, queryVars>>

(* One step's MarkApplied / MarkUnapplied and what follows: lines 170-180, *)
(* 214-224                                                                 *)
MigMark(p) ==
    /\ mig[p].pc = "mark"
    /\ \E applyErr \in {NoErr, InsertErr} :
          mig' = [mig EXCEPT ![p] =
             LET m == [@ EXCEPT !.marked = @ \cup {mig[p].k},
                                !.markFailed = IF applyErr # NoErr
                                               THEN @ \cup {mig[p].k} ELSE @]
                 a == AfterMark(m.err, applyErr)
             IN  IF a.returns
                 THEN [m EXCEPT !.pc = "unlock", !.ret = a.ret, !.retGroup = TRUE]
                 ELSE IF m.k < Len(m.group)
                 THEN [m EXCEPT !.pc = "run", !.k = m.k + 1]
                 ELSE [m EXCEPT !.pc = "unlock", !.ret = NoErr, !.retGroup = TRUE]]
    /\ UNCHANGED <<lockCol, loopVars, iterVars, queryVars>>

(* Variant: the run returns without the deferred Unlock *)
MigUnlock_NotDeferred(p) ==
    /\ mig[p].pc = "unlock"
    /\ mig' = [mig EXCEPT ![p] = [@ EXCEPT !.pc = "done"]]
    /\ UNCHANGED <<lockCol, loopVars, iterVars, queryVars>>

(* The deferred m.Unlock(ctx): lines 142, 193 *)
MigUnlock(p) ==
    /\ mig[p].pc = "unlock"
    /\ \E x \in ExecDropColumn(lockCol) :
          /\ lockCol' = x.col
          /\ mig' = [mig EXCEPT ![p] =
                [@ EXCEPT !.pc = "done",
                          !.unlockExec = Append(@, x.err),
                          !.unlockRet = Append(@, Unlock(x.err))]]
    /\ UNCHANGED <<loopVars, iterVars, queryVars>>

(* Lock and Unlock called on their own (both are exported) *)
CallLock(p) ==
    /\ mig[p].pc = "idle"
    /\ Len(mig[p].lockRet) + Len(mig[p].unlockRet) < MaxLockCalls
    /\ \E x \in ExecAddColumn(lockCol) :
          /\ lockCol' = x.col
          /\ mig' = [mig EXCEPT ![p] =
                [@ EXCEPT !.lockExec = Append(@, x.err),
                          !.lockRet = Append(@, Lock(x.err))]]
    /\ UNCHANGED <<loopVars, iterVars, queryVars>>

CallUnlock(p) ==
    /\ mig[p].pc = "idle"
    /\ Len(mig[p].lockRet) + Len(mig[p].unlockRet) < MaxLockCalls
    /\ \E x \in ExecDropColumn(lockCol) :
          /\ lockCol' = x.col
          /\ mig' = [mig EXCEPT ![p] =
                [@ EXCEPT !.unlockExec = Append(@, x.err),
                          !.unlockRet = Append(@, Unlock(x.err))]]
    /\ UNCHANGED <<loopVars, iterVars, queryVars>>

-----------------------------------------------------------------------------
(* Specification SpecLoops *)

InitLoops ==
    /\ lstream \in Streams
    /\ lout = [fn |-> "none"]
    /\ IterIdle
    /\ MigIdle
    /\ QueryIdle

NextLoops ==
    \/ CallReadSampleBlock
    \/ CallReadDataBlocks
    \/ CallReadPacket
    \/ CallReadPong
    \/ CallBlockIterRead
    \/ CallHello

SpecLoops == InitLoops /\ [][NextLoops]_vars

-----------------------------------------------------------------------------
(* Specification SpecIter: any sequence of at most MaxCalls calls of Next  *)
(* and Close on one blockIter whose connection delivers any of Streams.    *)

ItNext ==
    /\ hist.calls < MaxCalls
    /\ LET r == blockIter_Next(it, conn, emptyBlock)
       IN  /\ it' = r.it
           /\ conn' = r.rest
           /\ released' = released \o r.rel
           /\ reads' = reads + (IF r.read THEN 1 ELSE 0)
           /\ wrote' = wrote \o r.wr
           /\ last' = [op |-> "Next", ret |-> r.ret, read |-> r.read, err |-> r.err,
                       block |-> r.block, stoppedBefore |-> hist.stopped,
                       errBefore |-> blockIter_Err(it)]
           /\ hist' = [calls |-> hist.calls + 1,
                       stopped |-> hist.stopped \/ ~r.ret,
                       firstErr |-> IF hist.firstErr = NoErr THEN r.err
                                    ELSE hist.firstErr,
                       exhausted |-> hist.exhausted \/ (r.read /\ r.err = NoErr /\ ~r.ok),
                       closes |-> hist.closes]
    /\ UNCHANGED <<loopVars, migVars, queryVars>>

ItClose ==
    /\ hist.calls < MaxCalls
    /\ LET r == blockIter_Close(it)
       IN  /\ it' = r.it
           /\ released' = released \o r.rel
           /\ wrote' = wrote \o r.wr
           /\ last' = [op |-> "Close", ret |-> FALSE, read |-> FALSE, err |-> NoErr,
                       block |-> emptyBlock, stoppedBefore |-> hist.stopped,
                       errBefore |-> blockIter_Err(it)]
           /\ hist' = [hist EXCEPT !.calls = @ + 1, !.stopped = TRUE,
                                   !.closes = @ + 1]
    /\ UNCHANGED <<conn, reads>>
    /\ UNCHANGED <<loopVars, migVars, queryVars>>

InitIter ==
    /\ conn \in IterStreams
    /\ it = newBlockIter
    /\ released = <<>>
    /\ reads = 0
    /\ wrote = <<>>
    /\ last = [op |-> "none"]
    /\ hist = [calls |-> 0, stopped |-> FALSE, firstErr |-> NoErr,
               exhausted |-> FALSE, closes |-> 0]
    /\ LoopsIdle
    /\ MigIdle
    /\ QueryIdle

NextIter == ItNext \/ ItClose

SpecIter == InitIter /\ [][NextIter]_vars

-----------------------------------------------------------------------------
(* Specification SpecMigrate: one Migrator running Migrate or Rollback, or *)
(* calling Lock and Unlock on their own.                                   *)

InitMigrate == MigIdle /\ LoopsIdle /\ IterIdle /\ QueryIdle

NextMigrate ==
    \/ \E p \in DOMAIN mig : MigStart(p)
    \/ \E p \in DOMAIN mig : MigLock(p)
    \/ \E p \in DOMAIN mig : MigStatus(p)
    \/ \E p \in DOMAIN mig : MigRun(p)
    \/ \E p \in DOMAIN mig : MigMark(p)
    \/ \E p \in DOMAIN mig : MigUnlock(p)
    \/ \E p \in DOMAIN mig : CallLock(p)
    \/ \E p \in DOMAIN mig : CallUnlock(p)

SpecMigrate == InitMigrate /\ [][NextMigrate]_vars

-----------------------------------------------------------------------------
(* Properties of the streaming iterator, under SpecIter *)

(* C1: once a Next call has returned false or Close has been called, every *)
(* later Next call returns false and reads nothing from the connection:    *)
(* the unread packets and the count of reads are left as they were.        *)
C1_NextAfterStopIsInert ==
    [][(hist.stopped /\ hist'.calls = hist.calls + 1 /\ last'.op = "Next")
         => (~last'.ret /\ conn' = conn /\ reads' = reads /\ released' = released)]_vars

(* C1 witness: a Next call made after the iterator stopped, with a Data    *)
(* packet still unread on the connection.                                  *)
C1_Witness ==
    /\ last.op = "Next"
    /\ last.stoppedBefore
    /\ conn # <<>>
    /\ Head(conn).op = ServerData

(* C2: when a read of Next fails (transport failure, block decode failure, *)
(* server exception, unrecognized opcode), that Next returns false, the    *)
(* iterator is Closed, the connection was released once and with that      *)
(* error, and Err() is that error from then on, whatever is called later.  *)
C2_StickyErrorKept ==
    /\ (last.op = "Next" /\ last.err # NoErr) => ~last.ret
    /\ hist.firstErr # NoErr =>
          /\ ~it.cn
          /\ blockIter_Err(it) = hist.firstErr
          /\ released = <<hist.firstErr>>

(* C2 witness: a read failed on an unrecognized opcode, and both Next and  *)
(* Close were called afterwards.                                           *)
C2_Witness ==
    /\ hist.firstErr = UnexpectedPacket("blockIter.Next", 255)
    /\ hist.closes > 0
    /\ last.op = "Next"
    /\ last.stoppedBefore
    /\ last.errBefore = hist.firstErr

(* C3: an iterator closed by exhaustion or by Close with no failed read    *)
(* released its connection with a nil error and Err() is nil; a release    *)
(* carries a non-nil error only if a read of Next failed.                  *)
C3_HealthyRelease ==
    /\ (~it.cn /\ hist.firstErr = NoErr) =>
          /\ hist.exhausted \/ hist.closes > 0
          /\ released = <<NoErr>>
          /\ blockIter_Err(it) = NoErr
    /\ \A j \in 1..Len(released) : released[j] # NoErr => hist.firstErr # NoErr

(* C3 witness: Next read EndOfStream after a block, and the connection     *)
(* went back healthy.                                                      *)
C3_Witness ==
    /\ hist.exhausted
    /\ hist.calls >= 2
    /\ hist.closes = 0
    /\ released = <<NoErr>>

-----------------------------------------------------------------------------
(* Properties of the migrator, under SpecMigrate *)

Returned(m) == m.pc \in {"unlock", "done"} /\ ~m.panicked

(* C4: a Migrate in which some Up returned an error ran no later step and  *)
(* returns a non-nil error, with and without apply-on-success and whatever *)
(* MarkApplied returned.                                                   *)
C4_MigrateReturnsUpError ==
    \A p \in DOMAIN mig :
       LET m == mig[p]
       IN  (m.op = "Migrate" /\ Returned(m) /\ m.failed # {}) =>
              /\ m.ret # NoErr
              /\ \A f \in m.failed : \A k \in m.ran \cup m.marked : k <= f

(* C5: when a step's Up / Down returned an error: with apply-on-success    *)
(* the step is not marked; without it the step is marked before the run    *)
(* returns; in both cases no later step is run or marked, and every        *)
(* earlier step was marked.                                                *)
C5_MarkingOnFailure ==
    \A p \in DOMAIN mig :
       LET m == mig[p]
       IN  \A f \in m.failed :
              /\ m.applyOnSuccess => f \notin m.marked
              /\ (~m.applyOnSuccess /\ Returned(m)) => f \in m.marked
              /\ \A k \in m.ran \cup m.marked : k <= f
              /\ \A k \in 1..(f - 1) : k \in m.marked
              /\ m.applyOnSuccess => Returned(m)

(* C5 witness: a Rollback without apply-on-success whose second step       *)
(* failed: both steps are marked, and the run is over.                     *)
C5_Witness ==
    \E p \in DOMAIN mig :
       /\ mig[p].op = "Rollback"
       /\ ~mig[p].applyOnSuccess
       /\ mig[p].failed = {2}
       /\ mig[p].marked = {1, 2}
       /\ mig[p].pc = "done"

(* C6: Lock returns an "already locked" error exactly when the ADD COLUMN  *)
(* failed; Unlock returns nil when the DROP COLUMN succeeded or failed     *)
(* with "Cannot find column ...", and an "already unlocked" error for      *)
(* every other failure.                                                    *)
C6_LockUnlockErrors ==
    \A p \in DOMAIN mig :
       LET m == mig[p]
       IN  /\ \A j \in 1..Len(m.lockRet) :
                 /\ m.lockExec[j] = NoErr => m.lockRet[j] = NoErr
                 /\ m.lockExec[j] # NoErr =>
                       m.lockRet[j] = AlreadyLockedErr(m.lockExec[j])
           /\ \A j \in 1..Len(m.unlockRet) :
                 /\ m.unlockExec[j] \in {NoErr, CannotFindErr} => m.unlockRet[j] = NoErr
                 /\ m.unlockExec[j] \in {ConnRefusedErr, WrongCaseErr} =>
                       m.unlockRet[j] = AlreadyUnlockedErr(m.unlockExec[j])
                 /\ m.unlockExec[j] \in {NoErr, CannotFindErr, ConnRefusedErr, WrongCaseErr}

(* C6 witness: Lock on a locked table was refused, and Unlock on an        *)
(* unlocked table returned nil.                                            *)
C6_Witness ==
    \E p \in DOMAIN mig :
       /\ mig[p].lockExec = <<NoErr, ColumnExistsErr>>
       /\ mig[p].lockRet[2].kind = "already locked"
       /\ \E j \in 1..Len(mig[p].unlockRet) :
             mig[p].unlockExec[j] = CannotFindErr /\ mig[p].unlockRet[j] = NoErr

-----------------------------------------------------------------------------
(* Properties of the packet-dispatch loops and of hello, under SpecLoops *)

Vocabulary ==
    {ServerHello, ServerData, ServerException, ServerProgress, ServerPong,
     ServerEndOfStream, ServerProfileInfo, ServerTableColumns}

RECURSIVE SumRows(_)
SumRows(s) ==
    IF s = <<>> THEN 0
    ELSE (IF Head(s).op = ServerData THEN Head(s).body.numRow ELSE 0) + SumRows(Tail(s))

DataCount(s) == Cardinality({j \in 1..Len(s) : s[j].op = ServerData})

(* Data, Progress, ProfileInfo and TableColumns packets, all complete, in  *)
(* any order, then EndOfStream                                             *)
CompleteResponse(s) ==
    /\ s # <<>>
    /\ s[Len(s)].op = ServerEndOfStream
    /\ \A j \in 1..(Len(s) - 1) : s[j] \in GoodDataPkts \cup SkipPkts

(* C7: on a complete response readDataBlocks returns no error, and a       *)
(* Result whose affected count is the sum of the row counts of the Data    *)
(* packets; a nil Result when the response holds no Data packet.           *)
C7_AffectedIsSumOfRows ==
    (lout.fn = "readDataBlocks" /\ CompleteResponse(lout.in)) =>
       /\ lout.r.err = NoErr
       /\ lout.r.rest = <<>>
       /\ IF DataCount(lout.in) = 0 THEN lout.r.res.nil
          ELSE ~lout.r.res.nil /\ lout.r.res.affected = SumRows(lout.in)

(* C7 witness: two Data packets with rows, then EndOfStream *)
C7_Witness ==
    /\ lout.fn = "readDataBlocks"
    /\ CompleteResponse(lout.in)
    /\ DataCount(lout.in) = 2
    /\ lout.in[1].body.numRow = 1
    /\ lout.in[2].body.numRow = 2
    /\ lout.r.res.affected = 3

(* C8: readSampleBlock skips every complete Progress, ProfileInfo and      *)
(* TableColumns packet that arrives before the first Data packet, and then *)
(* returns the block decoded from that Data packet.                        *)
C8_SampleBlockSkipsInfoPackets ==
    lout.fn = "readSampleBlock" =>
       \A n \in 1..Len(lout.in) :
          (lout.in[n] \in GoodDataPkts /\ \A j \in 1..(n - 1) : lout.in[j] \in SkipPkts)
             => /\ lout.r.err = NoErr
                /\ ~lout.r.block.nil
                /\ lout.r.block.NumRow = lout.in[n].body.numRow

Consumed == Len(lout.in) - Len(lout.r.rest)

ResultIsNil ==
    CASE lout.fn = "readSampleBlock" -> lout.r.block.nil
      [] lout.fn \in {"readDataBlocks", "readPacket"} -> lout.r.res.nil
      [] lout.fn = "blockIter.read" -> ~lout.r.ok
      [] OTHER -> TRUE

(* C9: a dispatch loop that stops on a ServerException packet or on an     *)
(* opcode outside the vocabulary returns a non-nil error; and whenever a   *)
(* loop returns an error its result is nil (false for blockIter.read).     *)
C9_NoResultWithError ==
    lout.fn \in {"readSampleBlock", "readDataBlocks", "readPacket", "readPong",
                 "blockIter.read"} =>
       /\ (Consumed > 0 /\ (lout.in[Consumed].op = ServerException
                            \/ lout.in[Consumed].op \notin Vocabulary))
             => lout.r.err # NoErr
       /\ lout.r.err # NoErr => ResultIsNil

(* C9 witness: readDataBlocks had accumulated rows when an exception came *)
C9_Witness ==
    /\ lout.fn = "readDataBlocks"
    /\ Len(lout.in) >= 2
    /\ lout.in[1] = DataPkt(2)
    /\ lout.in[2].op = ServerException
    /\ lout.r.err.kind = "exception"
    /\ lout.r.res.nil

(* C10: hello writes the client hello and then reads exactly one packet:   *)
(* a ServerHello sets ServerInfo and succeeds; a ServerException returns   *)
(* the decoded exception and leaves ServerInfo unset; any other opcode     *)
(* returns an unexpected-packet error carrying it; and when the write      *)
(* fails no packet is read.                                                *)
C10_HelloReadsOnePacket ==
    lout.fn = "hello" =>
       /\ ~lout.writeOk =>
             lout.r.err # NoErr /\ lout.r.rest = lout.in /\ ~lout.r.info.set
       /\ (lout.writeOk /\ lout.in # <<>>) =>
             LET p == Head(lout.in)
             IN  /\ lout.r.rest = Tail(lout.in)
                 /\ Head(lout.r.wrote) = ClientHello
                 /\ (p.op = ServerHello /\ p.body.ok) =>
                       /\ lout.r.err = NoErr
                       /\ lout.r.info.set
                       /\ lout.r.info.Revision = p.body.info.Revision
                 /\ p.op = ServerException =>
                       /\ lout.r.err # NoErr
                       /\ ~lout.r.info.set
                       /\ p.body.levels[1].avail = 5 =>
                             /\ lout.r.err.kind = "exception"
                             /\ lout.r.err.Code = p.body.levels[1].code
                 /\ p.op \notin {ServerHello, ServerException} =>
                       /\ lout.r.err = UnexpectedPacket("hello", p.op)
                       /\ ~lout.r.info.set
       /\ (lout.writeOk /\ lout.in = <<>>) => lout.r.err # NoErr /\ ~lout.r.info.set

(* C10 witness: a ServerHello answered the hello, with more packets        *)
(* behind it                                                               *)
C10_Witness ==
    /\ lout.fn = "hello"
    /\ lout.writeOk
    /\ Len(lout.in) >= 2
    /\ Head(lout.in).op = ServerHello
    /\ lout.r.info.set
    /\ lout.r.err = NoErr
    /\ Len(lout.r.rest) = Len(lout.in) - 1

-----------------------------------------------------------------------------
(* Claims about the connection of a blockIter, under SpecIter.             *)

Contains_Seq(s, sub) ==
    \E j \in 0..(Len(s) - Len(sub)) :
        \A k \in 1..Len(sub) : s[j + k] = sub[k]

(* C11: after blockIter.Next receives a ServerException the connection is  *)
(* handed back to the pool for reuse, not discarded: no release the        *)
(* iterator makes carries an error the pool discards the connection for.   *)
C11_ExceptionKeepsConnection ==
    (hist.firstErr.kind = "exception")
        => \A j \in 1..Len(released) : ~PoolDiscards(released[j])

(* C12: when the caller closes an Open blockIter before the end of the     *)
(* stream was read, a Cancel opcode is written to the connection before    *)
(* it is released: the connection is never released healthy with neither   *)
(* a cancel written nor the response drained.                              *)
C12_CloseBeforeEndCancels ==
    (/\ hist.closes > 0
     /\ ~hist.exhausted
     /\ released # <<>>
     /\ \A j \in 1..Len(released) : released[j] = NoErr)
        => Contains_Seq(wrote, writeCancel)

(* C18: the connection is released at most once, it.cn is nil exactly when *)
(* the release has happened, and the release has happened by the time the  *)
(* iterator is Closed; a repeated Close, or a Close after exhaustion or    *)
(* an error, releases nothing more.                                        *)
C18_ReleasedAtMostOnce ==
    /\ Len(released) <= 1
    /\ it.cn <=> released = <<>>
    /\ hist.closes > 0 => Len(released) = 1

C18_Witness ==
    /\ hist.closes >= 2
    /\ hist.calls - hist.closes >= 1
    /\ hist.exhausted \/ hist.firstErr # NoErr
    /\ Len(released) = 1
    /\ ~it.cn

-----------------------------------------------------------------------------
(* Specification SpecException: readException decoding one exception       *)
(* packet body of up to MaxDepth levels.  Each level is the five fields    *)
(* the decoder reads (code, name, message, stack trace, has-nested);       *)
(* avail < 5 is a transport failure inside the level, and a has-nested     *)
(* flag on the last level is a transport failure at the next code.         *)

MaxDepth == 3

WireLevel(kind, nestedFlag, avail) ==
    [code |-> kind.code, name |-> kind.name,
     message |-> <<kind.name, ":", " ">> \o kind.text,
     stack |-> kind.stack, hasNested |-> nestedFlag, avail |-> avail]

LevelKinds ==
    { [code |-> 60, name |-> "DB::Exception", text |-> <<"Table", " ", "missing">>,
       stack |-> "stack0"],
      [code |-> 81, name |-> "Poco::Exception", text |-> InnerMsg,
       stack |-> "stack1"] }

WireLevels ==
    { WireLevel(k, n, a) : k \in LevelKinds, n \in BOOLEAN, a \in {5, 2} }

ExceptionChains ==
    UNION { [1..n -> WireLevels] : n \in 1..MaxDepth }

CallReadException ==
    /\ lout.fn = "none"
    /\ lstream # <<>>
    /\ lout' = [fn |-> "readException", in |-> lstream,
                r |-> [err |-> readException(Head(lstream).body.levels),
                       rest |-> Tail(lstream)]]
    /\ lstream' = lout'.r.rest
    /\ UNCHANGED <<iterVars, migVars, queryVars>>

InitException ==
    /\ lstream \in { <<ExcPkt(l)>> : l \in ExceptionChains }
    /\ lout = [fn |-> "none"]
    /\ IterIdle
    /\ MigIdle
    /\ QueryIdle

NextException == CallReadException

SpecException == InitException /\ [][NextException]_vars

(* The levels readException was given by the last call *)
DecodedLevels == Head(lout.in).body.levels

(* The first n levels are complete, each but the n-th announces a nested   *)
(* cause and the n-th announces none.                                      *)
WellFormedChain(levels, n) ==
    /\ n \in 1..Len(levels)
    /\ \A j \in 1..n : levels[j].avail = 5
    /\ \A j \in 1..(n - 1) : levels[j].hasNested
    /\ ~levels[n].hasNested

RECURSIVE ErrAt(_, _)
ErrAt(e, j) == IF j = 1 THEN e ELSE ErrAt(e.nested, j - 1)

(* A read fails somewhere on the path the decoder follows *)
RECURSIVE ReadFails(_)
ReadFails(levels) ==
    IF levels = <<>> THEN TRUE
    ELSE IF Head(levels).avail < 5 THEN TRUE
    ELSE IF Head(levels).hasNested THEN ReadFails(Tail(levels))
    ELSE FALSE

(* C13: an exception whose first N-1 levels announce a nested cause and    *)
(* whose N-th announces none decodes into a chain of exactly N linked      *)
(* Errors in wire order; the last has no cause and every level carries     *)
(* its code, name and stack trace.                                         *)
C13_NestedChainDecoded ==
    (lout.fn = "readException") =>
        \A n \in 1..MaxDepth :
            WellFormedChain(DecodedLevels, n) =>
                /\ \A j \in 1..n :
                      /\ ErrAt(lout.r.err, j).kind = "exception"
                      /\ ErrAt(lout.r.err, j).Code = DecodedLevels[j].code
                      /\ ErrAt(lout.r.err, j).Name = DecodedLevels[j].name
                      /\ ErrAt(lout.r.err, j).StackTrace = DecodedLevels[j].stack
                /\ ErrAt(lout.r.err, n).nested = NoErr

C13_Witness ==
    /\ lout.fn = "readException"
    /\ WellFormedChain(DecodedLevels, 3)
    /\ DecodedLevels[1].code # DecodedLevels[2].code
    /\ DecodedLevels[2].code # DecodedLevels[3].code
    /\ ErrAt(lout.r.err, 3).Code = DecodedLevels[3].code

(* C16: when a transport read fails anywhere while a ServerException is    *)
(* decoded, the nested cause included, the returned error is the transport *)
(* error and not a decoded Exception.                                      *)
C16_TransportErrorReturned ==
    (lout.fn = "readException" /\ ReadFails(DecodedLevels))
        => lout.r.err = IoErr

-----------------------------------------------------------------------------
(* writeQuery and writeSettings.  The writer is the sequence of the values *)
(* written to it, in order.  A setting value is [type, v]; the settings    *)
(* map is ranged over in an order the runtime chooses.                     *)

MaxQueries == 2

ClientQuery == 1
QueryInitial == 1
CompressionEnabled == 1

SettingKeys == {"max_threads", "readonly"}

SettingValues ==
    { [type |-> "string", v |-> "x"], [type |-> "int", v |-> 4],
      [type |-> "int64", v |-> 5], [type |-> "uint64", v |-> 6],
      [type |-> "bool", v |-> TRUE], [type |-> "float64", v |-> 1] }

SettingMaps == UNION { [K -> SettingValues] : K \in SUBSET SettingKeys }

(* The orders in which range can visit the keys of a map *)
RangeOrders(m) ==
    { o \in [1..Cardinality(DOMAIN m) -> DOMAIN m] :
        \A j, k \in DOMAIN o : j # k => o[j] # o[k] }

(* os.Hostname: the name, or "" with an error that writeQuery drops *)
HostnameResults == {"host1", ""}

RECURSIVE writeSettings(_, _)
writeSettings(settings, order) ==
    IF order = <<>> THEN [wr |-> <<"">>, panic |-> FALSE]
    ELSE LET key == Head(order)
             value == settings[key]
         IN  IF value.type \in {"string", "int", "int64", "uint64", "bool"}
             THEN LET r == writeSettings(settings, Tail(order))
                  IN  [wr |-> <<key, value.v>> \o r.wr, panic |-> r.panic]
             ELSE [wr |-> <<key>>, panic |-> TRUE]

writeQuery(host, settings, order, query) ==
    LET head == <<ClientQuery, "", QueryInitial, "", "", "[::ffff:127.0.0.1]:0",
                  1, host, host>> \o writeClientInfo \o <<"", chVersionPatch>>
        s == writeSettings(settings, order)
    IN  IF s.panic THEN [wr |-> head \o s.wr, panic |-> TRUE]
        ELSE [wr |-> head \o s.wr \o <<2, CompressionEnabled, query>>,
              panic |-> FALSE]

CallWriteQuery ==
    /\ Len(queries) < MaxQueries
    /\ \E name \in HostnameResults, order \in RangeOrders(QuerySettings) :
          LET resolve == hostname = ""
              host == IF resolve THEN name ELSE hostname
              r == writeQuery(host, QuerySettings, order, "SELECT 1")
          IN  /\ hostname' = host
              /\ lookups' = lookups + (IF resolve THEN 1 ELSE 0)
              /\ queries' = Append(queries, [wr |-> r.wr, panic |-> r.panic,
                                             host |-> host, order |-> order])
    /\ UNCHANGED <<QuerySettings, loopVars, iterVars, migVars>>

InitQuery ==
    /\ hostname = ""
    /\ lookups = 0
    /\ QuerySettings \in SettingMaps
    /\ queries = <<>>
    /\ LoopsIdle
    /\ IterIdle
    /\ MigIdle

NextQuery == CallWriteQuery

SpecQuery == InitQuery /\ [][NextQuery]_vars

(* C14: when the query settings hold a value of an unsupported type,       *)
(* writeQuery fails before anything of the request (opcode, client info,   *)
(* earlier settings entries) has been written to the writer.               *)
C14_NothingWrittenOnBadSetting ==
    \A j \in 1..Len(queries) :
        (\E k \in DOMAIN QuerySettings : QuerySettings[k].type = "float64")
            => queries[j].panic /\ Len(queries[j].wr) = 0

(* C15: over any sequence of writeQuery calls the hostname is resolved at  *)
(* most once, on the first call, and its outcome, the empty string of a    *)
(* failed resolution included, is what every later call uses.              *)
C15_HostnameResolvedOnce ==
    /\ lookups <= 1
    /\ \A j \in 1..Len(queries) : queries[j].host = queries[1].host

-----------------------------------------------------------------------------
(* Claims about the recording of a step, under SpecMigrate.                *)

(* C19: when MarkApplied / MarkUnapplied returns an error for a step whose *)
(* Up / Down succeeded, the run stops at that step and returns that        *)
(* recording error.                                                        *)
C19_RecordingErrorReturned ==
    \A p \in DOMAIN mig :
       LET m == mig[p]
       IN  \A f \in (m.markFailed \cap m.ran) \ m.failed :
              /\ \A k \in m.ran \cup m.marked : k <= f
              /\ Returned(m) => m.ret = InsertErr

-----------------------------------------------------------------------------
(* Specification SpecConcurrent: two Migrators over one locks table, each  *)
(* running one Migrate or Rollback; their steps interleave, and each       *)
(* ALTER TABLE is one step.                                                *)

ConcurrentMigrators == {1, 2}

InitConcurrent ==
    /\ lockCol = FALSE
    /\ mig = [p \in ConcurrentMigrators |-> IdleMigrator]
    /\ LoopsIdle
    /\ IterIdle
    /\ QueryIdle

NextConcurrent ==
    \/ \E p \in DOMAIN mig : MigStartWith(p, {FALSE}, BOOLEAN, {0, 1})
    \/ \E p \in DOMAIN mig : MigLock(p)
    \/ \E p \in DOMAIN mig : MigStatus(p)
    \/ \E p \in DOMAIN mig : MigRun(p)
    \/ \E p \in DOMAIN mig : MigMark(p)
    \/ \E p \in DOMAIN mig : MigUnlock(p)

SpecConcurrent == InitConcurrent /\ [][NextConcurrent]_vars

(* The run is between its own successful Lock and its own Unlock *)
HoldsLock(m) == m.pc \in {"status", "run", "mark", "unlock"}

(* C17: of two Migrators running Migrate / Rollback concurrently over one  *)
(* locks table, never two are both between their own successful Lock and   *)
(* their own Unlock.                                                       *)
C17_MutualExclusion ==
    \A p, q \in DOMAIN mig :
        (p # q /\ HoldsLock(mig[p])) => ~HoldsLock(mig[q])

(* C17 witness: one run is at a migration step while the other was turned  *)
(* away by Lock.                                                           *)
C17_Witness ==
    \E p, q \in DOMAIN mig :
        /\ p # q
        /\ mig[p].pc = "run"
        /\ mig[q].pc = "done"
        /\ mig[q].lockRet = <<AlreadyLockedErr(ColumnExistsErr)>>
        /\ mig[q].ret = AlreadyLockedErr(ColumnExistsErr)

(* What C20 says of one Migrator *)
UnlockDiscipline(m) ==
    /\ HoldsLock(m) => m.lockRet = <<NoErr>> /\ m.unlockRet = <<>>
    /\ (m.pc = "done" /\ m.lockRet = <<NoErr>>) => Len(m.unlockRet) = 1
    /\ m.lockRet # <<NoErr>> => m.unlockRet = <<>>

(* C20: a Migrate / Rollback that acquired the lock calls Unlock exactly   *)
(* once, as it returns, on every return path; when that Unlock succeeds    *)
(* the lock column is absent once the call has returned; a call whose      *)
(* validate or Lock failed never calls Unlock.                             *)
C20_UnlockOnEveryReturn ==
    [][\A p \in DOMAIN mig :
          /\ UnlockDiscipline(mig'[p])
          /\ (mig[p].pc = "unlock" /\ mig'[p].pc = "done"
                 /\ mig'[p].unlockRet = <<NoErr>>) => ~lockCol']_vars

(* C20 witness: one call returned through a panic of a nil migration       *)
(* function or an error of Up / Down and its Unlock succeeded; the other   *)
(* failed in validate or Lock and called no Unlock.                        *)
C20_Witness ==
    \E p, q \in DOMAIN mig :
        /\ p # q
        /\ mig[p].pc = "done"
        /\ mig[p].panicked \/ mig[p].failed # {}
        /\ mig[p].unlockRet = <<NoErr>>
        /\ mig[q].pc = "done"
        /\ mig[q].lockRet # <<NoErr>>
        /\ mig[q].unlockRet = <<>>
        /\ ~lockCol

-----------------------------------------------------------------------------
(* Claims about the guard of the migration function, under SpecMigrate.    *)

(* C21: Migrate and Rollback guard the migration function the same way:    *)
(* a step's Up / Down is invoked only when the nop option is off and the   *)
(* function is non-nil; with nop on no function is invoked, and a nil      *)
(* function is never invoked.                                              *)
C21_SameGuard ==
    \A p \in DOMAIN mig :
       LET m == mig[p]
       IN  /\ m.nop => m.ran = {}
           /\ ~m.panicked
           /\ \A k \in m.ran : m.group[StepIndex([m EXCEPT !.k = k])]

=============================================================================
